---- MODULE Spec2Model ----
(***************************************************************************)
(* Model of the waterfall bar chart visual                                 *)
(* (src/Source/customWaterfall/src/barChart.ts, class BarChart).           *)
(*                                                                         *)
(* The state is what the visual owns between calls: the attributes of the  *)
(* svg element, the two axis groups and the rect elements of the bar       *)
(* container, together with the view model the last update built and the   *)
(* options that update was called with (recorded for the properties).      *)
(*                                                                         *)
(* Numbers.  Viewport sizes and data values are integers.  The d3 scales   *)
(* produce fractions; a fraction is a record [num, den] in lowest terms    *)
(* with den > 0, and NaN is [num |-> 0, den |-> 0].  The arithmetic is     *)
(* exact: IEEE-754 rounding of the products and quotients is not modelled. *)
(* The d3 (version 3) calls of update are modelled by what they compute:   *)
(* d3.max, d3.min, d3.scale.linear, d3.scale.ordinal().rangeRoundBands and *)
(* the index data join of selection.data.  rangeRoundBands divides and     *)
(* rounds in floating point; for every plot width and domain size explored *)
(* here its floating-point results equal the exact ones.                   *)
(***************************************************************************)
EXTENDS Integers, Sequences, FiniteSets

VARIABLES data, svg, xAxis, yAxis, bars, viewModel, options, updates

vars == <<data, svg, xAxis, yAxis, bars, viewModel, options, updates>>

(***************************************************************************)
(* Bounds of the model.                                                    *)
(***************************************************************************)
MaxLen == 3

MaxValue == 2

(***************************************************************************)
(* BarChart.Config                                                         *)
(***************************************************************************)
MarginTop == 10

MarginRight == 0

MarginBottom == 25

MarginLeft == 45

\* xScalePadding: 0.1 as the fraction XScalePaddingNum / XScalePaddingDen
XScalePaddingNum == 1

XScalePaddingDen == 10

\* xAxisFontMultiplier: 0.04 as the fraction 4 / 100
XAxisFontMultiplierNum == 4

XAxisFontMultiplierDen == 100

\* the literal 51 of the y axis transform 'translate(51, ' + margins.top + ')'
YAxisOffset == 51

(***************************************************************************)
(* Integer and fraction arithmetic                                         *)
(***************************************************************************)
Abs(n) == IF n < 0 THEN 0 - n ELSE n

Min2(a, b) == IF a <= b THEN a ELSE b

Max2(a, b) == IF a >= b THEN a ELSE b

RECURSIVE GCD(_, _)
GCD(a, b) == IF b = 0 THEN a ELSE GCD(b, a % b)

NaN == [num |-> 0, den |-> 0]

IsNaN(r) == r.den = 0

\* the fraction n / d in lowest terms; 0 / 0 is NaN
Rat(n, d) ==
    IF d = 0 THEN NaN
    ELSE LET s == IF d < 0 THEN 0 - 1 ELSE 1
             g == GCD(Abs(n), Abs(d))
         IN  [num |-> (s * n) \div g, den |-> (s * d) \div g]

RatOfInt(n) == [num |-> n, den |-> 1]

RatAdd(p, q) ==
    IF IsNaN(p) \/ IsNaN(q) THEN NaN
    ELSE Rat(p.num * q.den + q.num * p.den, p.den * q.den)

RatSub(p, q) ==
    IF IsNaN(p) \/ IsNaN(q) THEN NaN
    ELSE Rat(p.num * q.den - q.num * p.den, p.den * q.den)

RatMul(p, q) ==
    IF IsNaN(p) \/ IsNaN(q) THEN NaN
    ELSE Rat(p.num * q.num, p.den * q.den)

\* p <= q; every comparison with NaN is false
RatLeq(p, q) ==
    /\ ~IsNaN(p)
    /\ ~IsNaN(q)
    /\ p.num * q.den <= q.num * p.den

\* Math.round of the fraction n / d with d > 0: floor(n / d + 1/2)
MathRound(n, d) == (2 * n + d) \div (2 * d)

\* Math.floor of the fraction n / d with d > 0
MathFloor(n, d) == n \div d

(***************************************************************************)
(* JavaScript values of viewModel.dataMax                                  *)
(***************************************************************************)
Num(n) == [type |-> "number", val |-> n]

Undefined == [type |-> "undefined", val |-> 0]

(***************************************************************************)
(* The data of update                                                      *)
(***************************************************************************)
DataPoint(c, v) == [value |-> v, category |-> c, start |-> 0, end |-> 0, class |-> ""]

\* let testData: BarChartDataPoint[] = [ ... ]
TestData ==
    << DataPoint("Total", 100), DataPoint("effect1", 60), DataPoint("effect2", 0 - 20),
       DataPoint("d", 0 - 10), DataPoint("e", 30), DataPoint("Total G", 160) >>

\* variant: a view model bound to the data the options carry
UpdateDataBound(src, dataView) == dataView

\* update builds its view model from testData; options.dataView is never read
\* (src: the data the method works on, dataView: the payload of the options)
UpdateData(src, dataView) == src

ValuesOf(points) == [i \in 1..Len(points) |-> points[i].value]

RECURSIVE MaxOfSeq(_)
MaxOfSeq(s) ==
    IF Len(s) = 1 THEN s[1] ELSE Max2(s[1], MaxOfSeq(Tail(s)))

RECURSIVE MinOfSeq(_)
MinOfSeq(s) ==
    IF Len(s) = 1 THEN s[1] ELSE Min2(s[1], MinOfSeq(Tail(s)))

\* d3.max(array): the largest element, undefined for an empty array
D3Max(s) == IF Len(s) = 0 THEN Undefined ELSE Num(MaxOfSeq(s))

\* d3.min(array): the smallest element, undefined for an empty array
D3Min(s) == IF Len(s) = 0 THEN Undefined ELSE Num(MinOfSeq(s))

\* dataMax: d3.max(testData.map((dataPoint) => dataPoint.value))
DataMax(points) == D3Max(ValuesOf(points))

\* variant: the commented-out d3.min(testData.map(...)) of the source
DataMinOfValues(points) == D3Min(ValuesOf(points))

\* dataMin : 0
DataMin(points) == Num(0)

BuildViewModel(points) ==
    [dataPoints |-> points, dataMax |-> DataMax(points), dataMin |-> DataMin(points)]

(***************************************************************************)
(* Pre calculate start and end of each bar (the loop of update; i counts   *)
(* from 0 as in the source, the sequence is indexed from 1)                *)
(***************************************************************************)
\* variant: zero classified negative
ClassOfStrict(value) == IF value > 0 THEN "positive" ELSE "negative"

ClassOf(value) == IF value >= 0 THEN "positive" ELSE "negative"

\* variant: start assigned after the value is added
RunningPointLate(p, cumulative) ==
    [p EXCEPT !.start = cumulative + p.value,
              !.end = cumulative + p.value,
              !.class = ClassOf(p.value)]

\* start = cumulative; cumulative += value; end = cumulative; class = ...
RunningPoint(p, cumulative) ==
    [p EXCEPT !.start = cumulative,
              !.end = cumulative + p.value,
              !.class = ClassOf(p.value)]

\* variant: the comparison against length instead of length - 1
FinalOverrideOffByOne(p, i, length) ==
    IF i = length THEN [p EXCEPT !.start = 0, !.end = p.value] ELSE p

\* if (i == viewModel.dataPoints.length - 1) { start = 0; end = value; }
FinalOverride(p, i, length) ==
    IF i = length - 1 THEN [p EXCEPT !.start = 0, !.end = p.value] ELSE p

RECURSIVE EnrichLoop(_, _, _)
EnrichLoop(points, i, cumulative) ==
    IF ~(i < Len(points)) THEN points
    ELSE LET p == RunningPoint(points[i + 1], cumulative)
             q == FinalOverride(p, i, Len(points))
         IN  EnrichLoop([points EXCEPT ![i + 1] = q], i + 1, cumulative + points[i + 1].value)

Enrich(points) == EnrichLoop(points, 0, 0)

(***************************************************************************)
(* d3.scale.linear().domain([dataMin, dataMax]).range([height, 0])         *)
(***************************************************************************)
\* variant: a range that is not inverted
YRangeUpright(height) == <<0, height>>

\* .range([height, 0])
YRange(height) == <<height, 0>>

LinearScale(viewModelArg, height) ==
    [domain |-> <<viewModelArg.dataMin, viewModelArg.dataMax>>, range |-> YRange(height)]

\* d3_uninterpolateNumber(a, b)(x): b = (b - a) || 1 / (b - a); (x - a) / b.
\* With b - a = 0 the divisor is Infinity and the quotient is 0.
Uninterpolate(a, b, x) ==
    IF a.type # "number" \/ b.type # "number" THEN NaN
    ELSE IF b.val - a.val = 0 THEN RatOfInt(0)
    ELSE Rat(x - a.val, b.val - a.val)

\* d3_interpolateNumber(a, b)(t): a * (1 - t) + b * t
Interpolate(a, b, t) ==
    RatAdd(RatMul(RatOfInt(a), RatSub(RatOfInt(1), t)), RatMul(RatOfInt(b), t))

\* scale(x) of a linear scale with a two-point domain and range, not clamped
ApplyLinear(scale, x) ==
    Interpolate(scale.range[1], scale.range[2],
                Uninterpolate(scale.domain[1], scale.domain[2], x))

(***************************************************************************)
(* d3.scale.ordinal().domain(categories).rangeRoundBands([0, width], pad)  *)
(***************************************************************************)
Contains(s, x) == \E i \in 1..Len(s) : s[i] = x

\* ordinal.domain(x): the distinct values in order of first occurrence
RECURSIVE OrdinalDomainFrom(_, _)
OrdinalDomainFrom(seen, rest) ==
    IF Len(rest) = 0 THEN seen
    ELSE IF Contains(seen, Head(rest)) THEN OrdinalDomainFrom(seen, Tail(rest))
    ELSE OrdinalDomainFrom(Append(seen, Head(rest)), Tail(rest))

OrdinalDomain(points) ==
    OrdinalDomainFrom(<<>>, [i \in 1..Len(points) |-> points[i].category])

\* step = Math.floor((stop - start) / (domain.length - padding + 2 * outerPadding))
\* with outerPadding = padding = pn / pd
BandStep(n, extent, pn, pd) == MathFloor(extent * pd, n * pd + pn)

\* Math.round((stop - start - (domain.length - padding) * step) / 2)
BandOffset(n, extent, step, pn, pd) ==
    MathRound(extent * pd - (n * pd - pn) * step, 2 * pd)

\* variant: the padding added to the band instead of taken from it
RangeBandWide(step, pn, pd) == MathRound(step * (pd + pn), pd)

\* rangeBand = Math.round(step * (1 - padding))
RangeBand(step, pn, pd) == MathRound(step * (pd - pn), pd)

Reverse(s) == [i \in 1..Len(s) |-> s[Len(s) + 1 - i]]

RangeRoundBands(domain, x0, x1, pn, pd) ==
    LET n == Len(domain)
        reverse == x1 < x0
        start == IF reverse THEN x1 ELSE x0
        stop == IF reverse THEN x0 ELSE x1
        step == BandStep(n, stop - start, pn, pd)
        first == start + BandOffset(n, stop - start, step, pn, pd)
        steps == [i \in 1..n |-> first + step * (i - 1)]
    IN  [domain |-> domain,
         range |-> IF reverse THEN Reverse(steps) ELSE steps,
         rangeBand |-> RangeBand(step, pn, pd)]

OrdinalScale(points, width) ==
    RangeRoundBands(OrdinalDomain(points), 0, width, XScalePaddingNum, XScalePaddingDen)

IndexOf(s, x) == IF Contains(s, x) THEN CHOOSE i \in 1..Len(s) : s[i] = x ELSE 0

\* scale(x) of an ordinal scale with bands: range[(index - 1) % range.length]
ApplyOrdinal(scale, category) ==
    LET k == IndexOf(scale.domain, category)
    IN  IF k = 0 \/ Len(scale.range) = 0 THEN NaN
        ELSE RatOfInt(scale.range[((k - 1) % Len(scale.range)) + 1])

(***************************************************************************)
(* The plot area and the bars                                              *)
(***************************************************************************)
\* height -= (margins.bottom + margins.top)
PlotHeight(viewportHeight) == viewportHeight - (MarginBottom + MarginTop)

\* width -= margins.left
PlotWidth(viewportWidth) == viewportWidth - MarginLeft

\* d3.min([height, width]) * BarChart.Config.xAxisFontMultiplier
FontSize(height, width) ==
    Rat(Min2(height, width) * XAxisFontMultiplierNum, XAxisFontMultiplierDen)

\* variant: the difference without Math.abs
BarHeightSigned(d, yScale, height) ==
    RatSub(RatOfInt(height), ApplyLinear(yScale, d.start - d.end))

\* height: d => height - yScale(Math.abs(d.start - d.end))
BarHeight(d, yScale, height) ==
    RatSub(RatOfInt(height), ApplyLinear(yScale, Abs(d.start - d.end)))

\* y: d => yScale(Math.max(d.start, d.end))
BarY(d, yScale) == ApplyLinear(yScale, Max2(d.start, d.end))

\* the attribute map of bars.attr({...}) for the datum d
BarAttrs(d, xScale, yScale, height) ==
    [width |-> xScale.rangeBand,
     height |-> BarHeight(d, yScale, height),
     y |-> BarY(d, yScale),
     x |-> ApplyOrdinal(xScale, d.category),
     transform |-> <<MarginLeft, MarginTop>>]

\* an element without attributes
NoAttrs == << >>

\* selectAll('.bar').data(dataPoints): the join by index of the rect elements
\* with the data; update keeps the elements that get a datum, enter holds the
\* data without an element, exit the elements without a datum
SelectionData(nodes, dataPoints) ==
    LET k == Min2(Len(nodes), Len(dataPoints))
    IN  [update |-> [i \in 1..k |-> [nodes[i] EXCEPT !.datum = dataPoints[i]]],
         enter |-> [i \in 1..(Len(dataPoints) - k) |-> dataPoints[k + i]],
         exit |-> [i \in 1..(Len(nodes) - k) |-> nodes[k + i]]]

\* bars.enter().append('rect').classed('bar', true): in d3 version 3 the
\* appended elements join the update selection
EnterAppend(join) ==
    join.update \o
        [i \in 1..Len(join.enter) |-> [class |-> "bar", datum |-> join.enter[i], attr |-> NoAttrs]]

\* variant: attributes set on the entering elements only
SetBarAttrsOnNew(node, xScale, yScale, height) ==
    IF node.attr = NoAttrs
    THEN [node EXCEPT !.attr = BarAttrs(node.datum, xScale, yScale, height)]
    ELSE node

\* bars.attr({...}) on one element of the selection
SetBarAttrs(node, xScale, yScale, height) ==
    [node EXCEPT !.attr = BarAttrs(node.datum, xScale, yScale, height)]

\* the children of the bar container after the join, enter().append, attr and
\* exit().remove(): the elements of the selection; those of exit are removed
RenderBars(nodes, dataPoints, xScale, yScale, height) ==
    LET selection == EnterAppend(SelectionData(nodes, dataPoints))
    IN  [i \in 1..Len(selection) |-> SetBarAttrs(selection[i], xScale, yScale, height)]

(***************************************************************************)
(* constructor: an svg element with an empty bar container and two empty   *)
(* axis groups; nothing has been computed yet                              *)
(***************************************************************************)
Constructed ==
    /\ svg = NoAttrs
    /\ xAxis = NoAttrs
    /\ yAxis = NoAttrs
    /\ bars = << >>
    /\ viewModel = << >>
    /\ options = << >>
    /\ updates = 0

Init ==
    /\ data = TestData
    /\ Constructed

(***************************************************************************)
(* update(options), with options.viewport = (w, h) and options.dataView    *)
(***************************************************************************)
\* everything update computes before it touches the bars: the view model with
\* the enriched points, the plot area and the two scales
Layout(testData, w, h) ==
    LET vm == BuildViewModel(testData)
        height == PlotHeight(h)
        width == PlotWidth(w)
    IN  [viewModel |-> [vm EXCEPT !.dataPoints = Enrich(vm.dataPoints)],
         height |-> height,
         width |-> width,
         yScale |-> LinearScale(vm, height),
         xScale |-> OrdinalScale(vm.dataPoints, width)]

\* the children of the bar container after update, nodes being those before
\* and l the layout the update computed
UpdateBars(nodes, l) ==
    RenderBars(nodes, l.viewModel.dataPoints, l.xScale, l.yScale, l.height)

Update(w, h, dataView) ==
    LET testData == UpdateData(data, dataView)
        l == Layout(testData, w, h)
    IN  /\ svg' = [width |-> w, height |-> h]
        /\ xAxis' = [fontSize |-> FontSize(l.height, l.width),
                     transform |-> <<MarginLeft, l.height + MarginTop>>,
                     scale |-> l.xScale]
        /\ yAxis' = [fontSize |-> FontSize(l.height, l.width),
                     transform |-> <<YAxisOffset, MarginTop>>,
                     scale |-> l.yScale]
        /\ viewModel' = l.viewModel
        /\ bars' = UpdateBars(bars, l)
        /\ options' = [viewport |-> [width |-> w, height |-> h], dataView |-> dataView]
        /\ updates' = Min2(updates + 1, 2)
        /\ UNCHANGED data

\* viewport sizes of the host: below, at and above the margins
ViewportWidths == {0, 30, 45, 106, 245, 320, 500}

ViewportHeights == {0, 20, 35, 36, 115, 195, 355}

\* payloads of options.dataView
DataViews ==
    { << >>,
      << DataPoint("x", 5) >>,
      << DataPoint("a", 1), DataPoint("b", 0 - 1) >> }

Next ==
    \E w \in ViewportWidths, h \in ViewportHeights, dataView \in DataViews :
        Update(w, h, dataView)

Spec == Init /\ [][Next]_vars

(***************************************************************************)
(* The same update applied to any data: the sample and every sequence of   *)
(* at most MaxLen points with values in Values.  The categories are those  *)
(* of the sample in order; with dup the last point repeats the category of *)
(* the first.                                                              *)
(***************************************************************************)
Values == {0 - 1} \cup (0..MaxValue)

CategoryAt(i) == TestData[i].category

InputOf(vals, dup) ==
    [i \in 1..Len(vals) |->
        DataPoint(IF dup /\ i = Len(vals) THEN CategoryAt(1) ELSE CategoryAt(i), vals[i])]

InputSeqs ==
    {TestData} \cup
    { InputOf(vals, dup) : vals \in UNION { [1..k -> Values] : k \in 0..MaxLen },
                           dup \in BOOLEAN }

GenWidths == {38, 45, 57, 76}

GenHeights == {29, 35, 47}

InitGen ==
    /\ data \in InputSeqs
    /\ Constructed

NextGen ==
    \E w \in GenWidths, h \in GenHeights : Update(w, h, << >>)

SpecGen == InitGen /\ [][NextGen]_vars

(***************************************************************************)
(* Properties.  In the states with updates > 0 an update has completed:    *)
(* viewModel, bars and the axes are those of the last call, options its    *)
(* argument.                                                               *)
(***************************************************************************)
Updated == updates > 0

Points == viewModel.dataPoints

LastHeight == PlotHeight(options.viewport.height)

LastWidth == PlotWidth(options.viewport.width)

\* the sum of the values of the first k points
RECURSIVE SumOfFirst(_, _)
SumOfFirst(points, k) ==
    IF k = 0 THEN 0 ELSE SumOfFirst(points, k - 1) + points[k].value

ScenarioA == << <<0, 100>>, <<100, 160>>, <<160, 140>>, <<140, 130>>, <<130, 160>> >>

\* C1: after the loop every point but the last starts at the sum of the values
\* before it and ends at start + value; on the sample sequence the first five
\* points get (0,100), (100,160), (160,140), (140,130), (130,160).
C1_RunningSums ==
    Updated =>
        /\ Len(Points) = Len(data)
        /\ \A i \in 1..(Len(Points) - 1) :
              /\ Points[i].start = SumOfFirst(data, i - 1)
              /\ Points[i].end = Points[i].start + Points[i].value
        /\ (data = TestData) =>
              \A i \in 1..5 : <<Points[i].start, Points[i].end>> = ScenarioA[i]

C1_Witness ==
    /\ Updated
    /\ data = TestData
    /\ Len(Points) = 6
    /\ Points[4].start = 140

\* C2: the last point of a non-empty sequence has start = 0 and end = value,
\* whatever the points before it add up to, also when it is the only point.
C2_FinalPoint ==
    (Updated /\ Len(data) > 0) =>
        /\ Len(Points) = Len(data)
        /\ Points[Len(Points)].start = 0
        /\ Points[Len(Points)].end = data[Len(data)].value

C2_Witness ==
    /\ Updated
    /\ Len(data) > 1
    /\ SumOfFirst(data, Len(data) - 1) # 0
    /\ data[Len(data)].value # 0
    /\ Points[Len(Points)].start = 0

C4_ClampedPlot ==
    (Updated /\ (options.viewport.height < MarginTop + MarginBottom
                    \/ options.viewport.width < MarginLeft)) =>
        /\ yAxis.scale.range[1] >= 0
        /\ \A i \in 1..Len(bars) :
              /\ bars[i].attr.width >= 0
              /\ RatLeq(RatOfInt(0), bars[i].attr.height)

\* C5: after any sequence of updates the bars (their number and each bar's
\* attributes and datum) are those a single update with the last call's
\* options produces on a newly constructed visual.
C5_FromScratch ==
    Updated =>
        bars = UpdateBars(<< >>, Layout(UpdateData(data, options.dataView),
                                        options.viewport.width,
                                        options.viewport.height))

C5_Witness ==
    /\ updates = 2
    /\ options.viewport.width = 245
    /\ options.viewport.height = 195
    /\ Len(bars) = 6
    /\ bars[1].attr.height = RatOfInt(100)

\* C6: a point's class is 'positive' exactly when its value is >= 0 and
\* 'negative' otherwise, for every point, the last one included.
C6_SignClass ==
    Updated =>
        \A i \in 1..Len(Points) :
            /\ Points[i].class \in {"positive", "negative"}
            /\ (Points[i].class = "positive") <=> (data[i].value >= 0)
            /\ bars[i].datum.class = Points[i].class

C6_Witness ==
    /\ Updated
    /\ Len(Points) = 3
    /\ data[1].value = 0
    /\ Points[1].class = "positive"
    /\ data[2].value > 0
    /\ data[3].value < 0
    /\ Points[3].class = "negative"

\* the bars of the categories at positions k and k + 1 of the scale's domain
BandX(k) == xAxis.scale.range[k]

BandCount == Len(xAxis.scale.domain)

BandWidth == xAxis.scale.rangeBand

\* left and right end of the range the bands are laid out in
RangeLow == Min2(0, LastWidth)

RangeHigh == Max2(0, LastWidth)

\* C7 as stated: equal widths, disjoint bands, gaps of exactly
\* padding * bandWidth, and the bands with their gaps fill [0, plotWidth]:
\* the first band starts at 0 and the last ends at plotWidth.
C7_BandsFillRange ==
    (Updated /\ Len(data) > 0) =>
        /\ \A i \in 1..Len(bars) : bars[i].attr.width = BandWidth
        /\ \A k \in 1..(BandCount - 1) :
              /\ BandX(k) + BandWidth <= BandX(k + 1)
              /\ XScalePaddingDen * (BandX(k + 1) - (BandX(k) + BandWidth))
                    = XScalePaddingNum * BandWidth
        /\ BandX(1) = 0
        /\ BandX(BandCount) + BandWidth = LastWidth

\* the distance between the bands of two consecutive categories
BandDistance(k) == Abs(BandX(k + 1) - BandX(k))

\* C7 amended: all bars have the same width >= 0; the bands of consecutive
\* categories are one constant step >= width apart, so that bands of distinct
\* categories do not overlap; the gap step - width is padding * step up to the
\* rounding of the width to a whole number (within 1/2); and every band lies
\* within the range between 0 and plotWidth, which the bands need not fill.
C7_BandsWithinRange ==
    (Updated /\ Len(data) > 0) =>
        /\ BandWidth >= 0
        /\ \A i \in 1..Len(bars) :
              /\ bars[i].attr.width = BandWidth
              /\ \E k \in 1..BandCount :
                    /\ xAxis.scale.domain[k] = bars[i].datum.category
                    /\ bars[i].attr.x = RatOfInt(BandX(k))
        /\ \A k \in 1..(BandCount - 1) :
              /\ BandDistance(k) = BandDistance(1)
              /\ BandDistance(k) >= BandWidth
              /\ 2 * Abs(XScalePaddingDen * (BandDistance(k) - BandWidth)
                            - XScalePaddingNum * BandDistance(k))
                    <= XScalePaddingDen
        /\ \A k \in 1..BandCount :
              /\ RangeLow <= BandX(k)
              /\ BandX(k) + BandWidth <= RangeHigh

C7_Witness ==
    /\ Updated
    /\ BandCount = 3
    /\ LastWidth = 31
    /\ BandWidth = 9
    /\ BandX(1) = 1
    /\ BandX(3) + BandWidth < LastWidth

BarStart(i) == Points[i].start

BarEnd(i) == Points[i].end

BarBottom(i) == RatAdd(bars[i].attr.y, bars[i].attr.height)

\* C8: when dataMax > 0, every bar's top edge y is the scaled position of
\* max(start, end) and its bottom edge y + height is the scaled position of
\* min(start, end), the last bar included.
C8_BarSpan ==
    (Updated /\ viewModel.dataMax.type = "number" /\ viewModel.dataMax.val > 0) =>
        /\ Len(bars) = Len(Points)
        /\ \A i \in 1..Len(bars) :
              /\ bars[i].attr.y = ApplyLinear(yAxis.scale, Max2(BarStart(i), BarEnd(i)))
              /\ BarBottom(i) = ApplyLinear(yAxis.scale, Min2(BarStart(i), BarEnd(i)))

C8_Witness ==
    /\ Updated
    /\ LastHeight = 12
    /\ Len(bars) = 3
    /\ viewModel.dataMax = Num(2)
    /\ BarStart(2) = 2
    /\ BarEnd(2) = 1
    /\ bars[2].attr.y = RatOfInt(0)
    /\ BarBottom(2) = RatOfInt(6)

InDomain(i) ==
    /\ viewModel.dataMax.type = "number"
    /\ 0 <= BarStart(i) /\ BarStart(i) <= viewModel.dataMax.val
    /\ 0 <= BarEnd(i) /\ BarEnd(i) <= viewModel.dataMax.val

InsidePlot(i) ==
    /\ RatLeq(RatOfInt(0), bars[i].attr.y)
    /\ RatLeq(RatOfInt(0), bars[i].attr.height)
    /\ RatLeq(BarBottom(i), RatOfInt(LastHeight))

\* C9: with a plot height >= 0, every bar whose start and end lie in
\* [0, dataMax] is drawn inside the plot area: 0 <= y, height >= 0 and
\* y + height <= plot height; the six bars of the sample all are.
C9_InsidePlot ==
    (Updated /\ LastHeight >= 0) =>
        /\ \A i \in 1..Len(bars) : InDomain(i) => InsidePlot(i)
        /\ (data = TestData) =>
              /\ Len(bars) = 6
              /\ \A i \in 1..6 : InDomain(i) /\ InsidePlot(i)

C9_Witness ==
    /\ Updated
    /\ data = TestData
    /\ LastHeight = 12
    /\ RatLeq(RatOfInt(1), bars[4].attr.y)
    /\ RatLeq(BarBottom(4), RatOfInt(11))

\* C10: two consecutive updates with the same viewport produce the same view
\* model and the same bars, whatever data their options carry, and the view
\* model is that of the six-point sample.
C10_ViewportOnly ==
    [][(Updated /\ options'.viewport = options.viewport) =>
          /\ viewModel' = viewModel
          /\ bars' = bars
          /\ ValuesOf(viewModel'.dataPoints) = ValuesOf(TestData)]_vars

C10_Witness ==
    /\ updates = 2
    /\ options.dataView # << >>
    /\ Len(viewModel.dataPoints) = 6
    /\ Len(bars) = 6

====
